---- MODULE Spec2Model ----
(***************************************************************************)
(* A model of the Stata dta reader (package datareader, StataReader).      *)
(*                                                                         *)
(* The byte source is a sequence of bytes (0..255) with a cursor; Go       *)
(* strings are sequences of bytes.  NewStataReader (the whole one-time     *)
(* initialization pass) and Read (one row-decoding call) are each one      *)
(* action, computed from the bytes of the file the way the code computes   *)
(* them, ignored read errors, reused buffers and panics included.          *)
(*                                                                         *)
(* A function of the code is a list of statements (Rd, Seek, Int, Bin,     *)
(* Str, ...) run in order by Run on a record m that holds the fields of    *)
(* the StataReader, the cursor of its reader and the local variables of    *)
(* the function.                                                           *)
(***************************************************************************)
EXTENDS Integers, Sequences, FiniteSets, TLC

VARIABLES
    desc,    \* what the file was written from (the writer's side; the reader
             \* never looks at it)
    file,    \* the content of the io.ReadSeeker handed to NewStataReader
    rdr,     \* the StataReader struct; rdr.pos is the cursor of rdr.reader
    status,  \* "new", "ready", "error" (NewStataReader returned an error),
             \* "panic" (a call panicked), "hang" (a call never returns)
    ret      \* what the last call returned

vars == <<desc, file, rdr, status, ret>>

----------------------------------------------------------------------------
(* Bytes and sequences *)

Min(a, b) == IF a < b THEN a ELSE b

Max(a, b) == IF a < b THEN b ELSE a

Zeros(n) == [i \in 1..n |-> 0]

Reverse(s) == [i \in 1..Len(s) |-> s[Len(s) + 1 - i]]

\* A fixed-width null-padded field holding s.
Pad(s, n) == s \o Zeros(n - Len(s))

\* new written over the front of buf, the rest of buf kept.
Overlay(buf, new) == new \o SubSeq(buf, Len(new) + 1, Len(buf))

RECURSIVE Flatten(_)
Flatten(ss) == IF ss = <<>> THEN <<>> ELSE Head(ss) \o Flatten(Tail(ss))

\* The index of the first null byte of b; Len(b) + 1 when it has none.
FirstNull(b) ==
    IF \A i \in 1..Len(b) : b[i] # 0 THEN Len(b) + 1
    ELSE CHOOSE i \in 1..Len(b) : b[i] = 0 /\ \A k \in 1..(i - 1) : b[k] # 0

\* Returns everything before the first null byte.
partition(b) == SubSeq(b, 1, FirstNull(b) - 1)

HasPrefix(s, pre) == Len(s) >= Len(pre) /\ SubSeq(s, 1, Len(pre)) = pre

----------------------------------------------------------------------------
(* The io.ReadSeeker: the content is file, p the cursor *)

\* The bytes a Read of n bytes at p obtains: fewer than n at the end.
Got(p, n) ==
    IF p >= Len(file) \/ n <= 0 THEN <<>>
    ELSE SubSeq(file, p + 1, Min(p + n, Len(file)))

\* The cursor after a Read (or an io.ReadFull) of n bytes at p.
Adv(p, n) == IF p >= Len(file) \/ n <= 0 THEN p ELSE Min(p + n, Len(file))

\* Whether all n bytes are there.
Full(p, n) == p + n <= Len(file)

\* A read of n bytes at p that the source cannot complete.
ShortAt(p, n) == n > 0 /\ ~Full(p, n)

\* reader.Seek(d, 1); a seek before the start fails and moves nothing.
SeekCur(p, d) == IF p + d < 0 THEN p ELSE p + d

\* reader.Seek(a, 0)
SeekSet(p, a) == IF a < 0 THEN p ELSE a

----------------------------------------------------------------------------
(* encoding/binary *)

\* The bytes in order of significance, least significant first.
Sig(bytes, bo) == IF bo = "big" THEN Reverse(bytes) ELSE bytes

\* Values beyond 32 bits do not occur in the files of this model; they are
\* reported as this number.
OutOfRange == 2 ^ 31 - 1

RECURSIVE UintOf(_)
UintOf(b) ==
    IF b = <<>> THEN 0
    ELSE IF Len(b) > 4
    THEN IF b[Len(b)] = 0 THEN UintOf(SubSeq(b, 1, Len(b) - 1)) ELSE OutOfRange
    ELSE IF Len(b) = 4 /\ b[4] >= 128 THEN OutOfRange
    ELSE b[1] + 256 * UintOf(Tail(b))

RECURSIVE IntOf(_)
IntOf(b) ==
    IF Len(b) > 4
    THEN IF b[Len(b)] = 0 /\ b[Len(b) - 1] < 128
         THEN IntOf(SubSeq(b, 1, Len(b) - 1))
         ELSE IF b[Len(b)] = 255 /\ b[Len(b) - 1] >= 128
         THEN IntOf(SubSeq(b, 1, Len(b) - 1))
         ELSE OutOfRange
    ELSE IF b[Len(b)] >= 128
    THEN UintOf(SubSeq(b, 1, Len(b) - 1)) + (b[Len(b)] - 256) * 256 ^ (Len(b) - 1)
    ELSE UintOf(b)

\* binary.Read of a w-byte value at p into a variable holding old: a short
\* read leaves the variable as it was.  kind: "int" (signed), "uint", or
\* "bytes" (an unsigned value kept as its bytes, least significant first).
BinValue(p, w, bo, kind, old) ==
    IF ~Full(p, w) THEN old
    ELSE CASE kind = "int" -> IntOf(Sig(Got(p, w), bo))
           [] kind = "uint" -> UintOf(Sig(Got(p, w), bo))
           [] kind = "bytes" -> Sig(Got(p, w), bo)

\* The w bytes of v, least significant first (two's complement).
ToBytes(v, w) == [i \in 1..w |-> IF i <= 4 THEN (v \div (256 ^ (i - 1))) % 256
                                  ELSE IF v < 0 THEN 255 ELSE 0]

\* The w bytes of v as the file holds them in byte order bo.
Enc(v, w, bo) == Sig(ToBytes(v, w), bo)

----------------------------------------------------------------------------
(* Package-level tables *)

supported_dta_versions == {114, 115, 117, 118}

row_count_width == (114 :> 4) @@ (115 :> 4) @@ (117 :> 4) @@ (118 :> 8)

nvar_width == (114 :> 2) @@ (115 :> 2) @@ (117 :> 2) @@ (118 :> 2)

dataset_label_width == (117 :> 1) @@ (118 :> 2)

----------------------------------------------------------------------------
(* ASCII text the code compares against *)

STATA_DTA == <<60, 115, 116, 97, 116, 97, 95, 100, 116, 97, 62>>  \* "<stata_dta>"

MSF == <<77, 83, 70>>  \* "MSF"

LSF == <<76, 83, 70>>  \* "LSF"

GSO == <<71, 83, 79>>  \* "GSO"

LBL == <<60, 108, 98, 108, 62>>  \* "<lbl>"

PctTd == <<37, 116, 100>>  \* "%td"

PctTc == <<37, 116, 99>>  \* "%tc"

IsDigit(c) == c >= 48 /\ c <= 57

\* strconv.ParseUint(string(b), 0, 64) of three bytes: three decimal digits
\* not starting with 0 are the number; anything else is a parse error or (a
\* prefixed or underscored form) a number below 100.  -1 stands for both:
\* either way read_new_header returns an error.
ParseUint3(b) ==
    IF IsDigit(b[1]) /\ IsDigit(b[2]) /\ IsDigit(b[3]) /\ b[1] # 48
    THEN (b[1] - 48) * 100 + (b[2] - 48) * 10 + (b[3] - 48)
    ELSE -1

----------------------------------------------------------------------------
(* The StataReader struct *)

\* new(StataReader) with the defaults NewStataReader sets.  pos is the
\* cursor of rdr.reader; short records that, in the running call, the source
\* has ended before a read was complete; err is how the running call has
\* ended so far ("nil", "error", "panic", or "hang": the call never returns).
NewReader ==
    [ InsertStrls |-> TRUE, InsertCategoryLabels |-> TRUE, ConvertDates |-> TRUE,
      DatasetLabel |-> <<>>, TimeStamp |-> <<>>, Nvar |-> 0, RowCount |-> 0,
      VarTypes |-> <<>>, column_names |-> <<>>, ColumnNamesLong |-> <<>>,
      ValueLabels |-> <<>>, ValueLabelNames |-> <<>>, Formats |-> <<>>,
      Strls |-> <<>>, StrlsBytes |-> <<>>, FormatVersion |-> 0,
      ByteOrder |-> "little", rows_read |-> 0,
      seek_vartypes |-> 0, seek_varnames |-> 0, seek_sortlist |-> 0,
      seek_formats |-> 0, seek_value_label_names |-> 0,
      seek_variable_labels |-> 0, seek_characteristics |-> 0,
      seek_data |-> 0, seek_strls |-> 0, seek_value_labels |-> 0,
      is_date |-> <<>>,
      pos |-> 0, short |-> FALSE, err |-> "nil" ]

\* The local variables of the functions of the reader.
Locals ==
    [ buf |-> <<>>, format |-> 0, bo |-> 0, w |-> 0, n8 |-> 0,
      c |-> <<>>, b |-> 0, i |-> 0,
      buf3 |-> <<>>, v |-> <<>>, o |-> <<>>, t |-> 0, length |-> 0,
      vl |-> <<>>, labname |-> <<>>, n |-> 0, textlen |-> 0,
      off |-> <<>>, val |-> <<>>,
      nval |-> 0, vals |-> <<>>, missing |-> <<>>, x |-> 0 ]

\* The reader with the locals of a call that starts / without them.
Enter(s) == [s EXCEPT !.err = "nil", !.short = FALSE] @@ Locals

Leave(m) == [k \in DOMAIN NewReader |-> m[k]]

----------------------------------------------------------------------------
(* Statements *)

\* An operand: a number, the value of a field or local of m, or the entry
\* of a package-level table for the format version.
N(v) == [k |-> "n", v |-> v]

F(name) == [k |-> "f", v |-> name]

W(table) == [k |-> "w", v |-> table]

Arg(m, a) ==
    CASE a.k = "n" -> a.v
      [] a.k = "f" -> m[a.v]
      [] a.k = "w" -> a.v[m.FormatVersion]

\* b = make([]byte, n)
NewBuf(b, n) == [op |-> "newbuf", b |-> b, n |-> n]

\* rdr.reader.Read(b[0:n])
Rd(b, n) == [op |-> "read", b |-> b, n |-> n]

\* rdr.reader.Seek(d, 1)
Seek(d) == [op |-> "seek", d |-> d]

\* rdr.reader.Seek(a + k, 0)
SeekTo(a, k) == [op |-> "seekto", a |-> a, k |-> k]

\* to = rdr.read_int(w) and to = rdr.read_uint(w): the value read into a
\* fresh variable
RdInt(to, w) == [op |-> "bin", to |-> to, w |-> w, kind |-> "int", fresh |-> TRUE]

RdUint(to, w) == [op |-> "bin", to |-> to, w |-> w, kind |-> "uint", fresh |-> TRUE]

\* binary.Read(rdr.reader, order, &to), to a w-byte "int", "uint" or "bytes"
Bin(to, w, kind) ==
    [op |-> "bin", to |-> to, w |-> N(w), kind |-> kind, fresh |-> FALSE]

\* to = string(b[0:n]) and to = string(partition(b[0:n]))
Str(to, b, n) == [op |-> "str", to |-> to, b |-> b, n |-> n, cut |-> FALSE]

StrZ(to, b, n) == [op |-> "str", to |-> to, b |-> b, n |-> n, cut |-> TRUE]

\* var to T, or to = <a value>
Var(to, value) == [op |-> "var", to |-> to, value |-> value]

\* to = make([]T, n); for k < n { binary.Read(rdr.reader, order, &to[k]) }
\* with w-byte elements
Arr(to, w, kind, n) == [op |-> "arr", to |-> to, w |-> w, kind |-> kind, n |-> n]

\* to = make([]string, n); for k < n { rdr.reader.Read(b);
\* to[k] = string(partition(b)) }
Strs(to, b, n) == [op |-> "strs", to |-> to, b |-> b, n |-> n]

\* A statement of another form: see Statement.
Do(stmt) == [op |-> "do", stmt |-> stmt]

ExecNewBuf(m, b, n) ==
    IF n < 0 THEN [m EXCEPT !.err = "panic"]
    ELSE [m EXCEPT ![b] = Zeros(n)]

\* b[0:n] panics when n exceeds the capacity of b; the bytes obtained land
\* at the front of b, the rest of b stays.
ExecRead(m, b, n) ==
    IF n < 0 \/ n > Len(m[b]) THEN [m EXCEPT !.err = "panic"]
    ELSE [m EXCEPT ![b] = Overlay(@, Got(m.pos, n)),
                   !.pos = Adv(@, n),
                   !.short = @ \/ ShortAt(m.pos, n)]

ExecBin(m, to, w, kind, old) ==
    [m EXCEPT ![to] = BinValue(m.pos, w, m.ByteOrder, kind, old),
              !.pos = Adv(@, w),
              !.short = @ \/ ShortAt(m.pos, w)]

ExecStr(m, to, b, n, cut) ==
    IF n < 0 \/ n > Len(m[b]) THEN [m EXCEPT !.err = "panic"]
    ELSE [m EXCEPT ![to] = IF cut THEN partition(SubSeq(m[b], 1, n))
                           ELSE SubSeq(m[b], 1, n)]

\* The elements a short read does not reach keep the zero of make.
ExecArr(m, to, w, kind, n) ==
    IF n < 0 THEN [m EXCEPT !.err = "panic"]
    ELSE [m EXCEPT ![to] = [k \in 1..n |->
                              BinValue(m.pos + w * (k - 1), w, m.ByteOrder, kind, 0)],
                   !.pos = Adv(@, w * n),
                   !.short = @ \/ ShortAt(m.pos, w * n)]

\* n reads into one buffer, each followed by partition: a short read leaves
\* the tail of the buffer as the read before left it.
RECURSIVE read_strings(_, _, _, _)
read_strings(p, buf, n, acc) ==
    IF n <= 0 THEN acc
    ELSE read_strings(Adv(p, Len(buf)), Overlay(buf, Got(p, Len(buf))), n - 1,
                      Append(acc, partition(Overlay(buf, Got(p, Len(buf))))))

ExecStrs(m, to, b, n) ==
    IF n < 0 THEN [m EXCEPT !.err = "panic"]
    ELSE [m EXCEPT ![to] = read_strings(m.pos, m[b], n, <<>>),
                   !.pos = Adv(@, Len(m[b]) * n),
                   !.short = @ \/ ShortAt(m.pos, Len(m[b]) * n)]

----------------------------------------------------------------------------
(* The strl and value-label dictionaries *)

RECURSIVE BitOr(_, _)
BitOr(a, b) ==
    IF a = 0 THEN b
    ELSE IF b = 0 THEN a
    ELSE Max(a % 2, b % 2) + 2 * BitOr(a \div 2, b \div 2)

\* 64-bit unsigned values are their 8 bytes, least significant first.
Uint64(v) == v \o Zeros(8 - Len(v))

Shl16(o) == <<0, 0>> \o SubSeq(o, 1, 6)

Or64(a, b) == [k \in 1..8 |-> BitOr(a[k], b[k])]

\* ky = uint64(v) | (o << 16)
strl_key(v, o) == Or64(Uint64(v), Shl16(o))

\* A Go map lookup m[k]: the zero value (here "") for an absent key.
Lookup(m, k) == IF k \in DOMAIN m THEN m[k] ELSE <<>>

\* m[k] = v
Store(m, k, v) == (k :> v) @@ m

\* vk after "vk[val[j]] = string(partition(buf[off[j]:]))" for j = 0..n-1:
\* the last j with a code decides its label.
label_map(off, val, buf) ==
    [x \in {val[j] : j \in 1..Len(val)} |->
        partition(SubSeq(buf,
            off[CHOOSE j \in 1..Len(val) :
                    val[j] = x /\ \A k \in (j + 1)..Len(val) : val[k] # x] + 1,
            Len(buf)))]

supported_version(v) == v \in supported_dta_versions

----------------------------------------------------------------------------
(* Statements of other forms, by their text in the source *)

Statement(m, stmt) ==
    CASE stmt = "rdr.FormatVersion = int(format)" ->
            [m EXCEPT !.FormatVersion = m.format]
      [] stmt = "if !rdr.supported_version() { return errors.New }" ->
            IF supported_version(m.FormatVersion) THEN m
            ELSE [m EXCEPT !.err = "error"]
      [] stmt = "if bo == 1 { BigEndian } else { LittleEndian }" ->
            [m EXCEPT !.ByteOrder = IF m.bo = 1 THEN "big" ELSE "little"]
      [] stmt = "if string(buf[0:11]) != <stata_dta> { return errors.New }" ->
            IF SubSeq(m.buf, 1, 11) = STATA_DTA THEN m
            ELSE [m EXCEPT !.err = "error"]
      [] stmt = "x, err := strconv.ParseUint(string(buf[0:3]), 0, 64)" ->
            IF ParseUint3(SubSeq(m.buf, 1, 3)) < 0 THEN [m EXCEPT !.err = "error"]
            ELSE [m EXCEPT !.FormatVersion = ParseUint3(SubSeq(m.buf, 1, 3))]
      [] stmt = "if string(buf[0:3]) == MSF { BigEndian } else { LittleEndian }" ->
            [m EXCEPT !.ByteOrder = IF SubSeq(m.buf, 1, 3) = MSF THEN "big"
                                    ELSE "little"]
      [] stmt = "binary.Read(rdr.reader, rdr.ByteOrder, &b); rdr.VarTypes[k] = uint16(b[0])" ->
            \* for k < Nvar, with the one-byte b shared by all iterations:
            \* once the source has ended every further type is the last
            \* byte that was read
            IF m.Nvar < 0 THEN [m EXCEPT !.err = "panic"]
            ELSE [m EXCEPT
                    !.VarTypes = [k \in 1..m.Nvar |->
                        IF Full(m.pos + k - 1, 1) THEN file[m.pos + k]
                        ELSE IF m.pos < Len(file) THEN file[Len(file)]
                        ELSE 0],
                    !.pos = Adv(@, m.Nvar),
                    !.short = @ \/ ShortAt(m.pos, m.Nvar)]
      [] stmt = "rdr.Strls[0] = empty" ->
            [m EXCEPT !.Strls = Store(<<>>, Zeros(8), <<>>), !.StrlsBytes = <<>>]
      [] stmt = "if t == 130 { rdr.Strls[ky] = string(partition(buf)) } else if t == 129 { rdr.StrlsBytes[ky] = buf }" ->
            [m EXCEPT
                !.Strls = IF m.t = 130
                          THEN Store(@, strl_key(m.v, m.o), partition(m.buf))
                          ELSE @,
                !.StrlsBytes = IF m.t = 129
                               THEN Store(@, strl_key(m.v, m.o), m.buf)
                               ELSE @]
      [] stmt = "vk[val[j]] = string(partition(buf[off[j]:])); vl[labname] = vk" ->
            IF \E j \in 1..m.n : m.off[j] < 0 \/ m.off[j] > Len(m.buf)
            THEN [m EXCEPT !.err = "panic"]
            ELSE [m EXCEPT !.vl = Store(@, m.labname,
                                        label_map(m.off, m.val, m.buf))]
      [] stmt = "missing[j] = make([]bool, nval)" ->
            \* for j < Nvar
            IF m.Nvar > 0 /\ m.nval < 0 THEN [m EXCEPT !.err = "panic"] ELSE m
      [] stmt = "rdr.ValueLabels = vl" ->
            [m EXCEPT !.ValueLabels = m.vl]

Exec(m, ins) ==
    CASE ins.op = "newbuf" -> ExecNewBuf(m, ins.b, Arg(m, ins.n))
      [] ins.op = "read" -> ExecRead(m, ins.b, Arg(m, ins.n))
      [] ins.op = "seek" -> [m EXCEPT !.pos = SeekCur(@, Arg(m, ins.d))]
      [] ins.op = "seekto" -> [m EXCEPT !.pos = SeekSet(@, Arg(m, ins.a) + ins.k)]
      [] ins.op = "bin" ->
            ExecBin(m, ins.to, Arg(m, ins.w), ins.kind,
                    IF ins.fresh THEN 0 ELSE m[ins.to])
      [] ins.op = "str" -> ExecStr(m, ins.to, ins.b, Arg(m, ins.n), ins.cut)
      [] ins.op = "var" -> [m EXCEPT ![ins.to] = ins.value]
      [] ins.op = "arr" -> ExecArr(m, ins.to, ins.w, ins.kind, Arg(m, ins.n))
      [] ins.op = "strs" -> ExecStrs(m, ins.to, ins.b, Arg(m, ins.n))
      [] ins.op = "do" -> Statement(m, ins.stmt)

\* The statements of prog one after the other, until one ends the call.
RECURSIVE Run(_, _)
Run(m, prog) ==
    IF prog = <<>> \/ m.err # "nil" THEN m
    ELSE Run(Exec(m, Head(prog)), Tail(prog))

----------------------------------------------------------------------------
(* The headers *)

\* read_old_header reads the pre version 117 header.
read_old_header(m) ==
    Run(m, << NewBuf("buf", N(81)),
              Var("format", 0),
              Bin("format", 1, "uint"),
              Do("rdr.FormatVersion = int(format)"),
              Do("if !rdr.supported_version() { return errors.New }"),
              Var("bo", 0),
              Bin("bo", 1, "uint"),
              Do("if bo == 1 { BigEndian } else { LittleEndian }"),
              Seek(N(2)),
              RdInt("Nvar", W(nvar_width)),
              RdInt("RowCount", W(row_count_width)),
              Rd("buf", N(81)),
              StrZ("DatasetLabel", "buf", N(81)),
              Rd("buf", N(18)),
              StrZ("TimeStamp", "buf", N(18)) >>)

\* read_new_header reads a new-style xml header (versions 117+).
read_new_header(m) ==
    Run(m, << NewBuf("buf", N(500)),
              Var("n8", 0),
              Rd("buf", N(28)),
              Do("if string(buf[0:11]) != <stata_dta> { return errors.New }"),
              Rd("buf", N(3)),
              Do("x, err := strconv.ParseUint(string(buf[0:3]), 0, 64)"),
              Do("if !rdr.supported_version() { return errors.New }"),
              Seek(N(21)),
              Rd("buf", N(3)),
              Do("if string(buf[0:3]) == MSF { BigEndian } else { LittleEndian }"),
              Seek(N(15)),
              RdInt("Nvar", W(nvar_width)),
              Seek(N(7)),
              RdInt("RowCount", W(row_count_width)),
              Seek(N(11)),
              RdUint("w", W(dataset_label_width)),
              Rd("buf", F("w")),
              Str("DatasetLabel", "buf", F("w")),
              Seek(N(19)),
              Bin("n8", 1, "uint"),
              Rd("buf", F("n8")),
              Str("TimeStamp", "buf", F("n8")),
              Seek(N(42)),
              Bin("seek_vartypes", 8, "int"),
              Bin("seek_varnames", 8, "int"),
              Bin("seek_sortlist", 8, "int"),
              Bin("seek_formats", 8, "int"),
              Bin("seek_value_label_names", 8, "int"),
              Bin("seek_variable_labels", 8, "int"),
              Bin("seek_characteristics", 8, "int"),
              Bin("seek_data", 8, "int"),
              Bin("seek_strls", 8, "int"),
              Bin("seek_value_labels", 8, "int") >>)

----------------------------------------------------------------------------
(* Metadata section readers *)

read_vartypes_16(m) ==
    Run(m, << SeekTo(F("seek_vartypes"), 16),
              Arr("VarTypes", 2, "uint", F("Nvar")) >>)

read_vartypes_8(m) ==
    Run(m, << Do("binary.Read(rdr.reader, rdr.ByteOrder, &b); rdr.VarTypes[k] = uint16(b[0])") >>)

read_vartypes(m) ==
    IF m.err # "nil" THEN m
    ELSE CASE m.FormatVersion = 118 -> read_vartypes_16(m)
          [] m.FormatVersion = 117 -> read_vartypes_16(m)
          [] m.FormatVersion = 115 -> read_vartypes_8(m)
          [] m.FormatVersion = 114 -> read_vartypes_8(m)
          [] OTHER -> [m EXCEPT !.err = "panic"]

\* One case of the switch of translate_vartypes; -1 stands for its default
\* case (the panic).
translate_vartype(t) ==
    CASE t <= 244 -> t
      [] t = 251 -> 65530
      [] t = 252 -> 65529
      [] t = 253 -> 65528
      [] t = 254 -> 65527
      [] t = 255 -> 65526
      [] OTHER -> -1

translate_vartypes(m) ==
    IF m.err # "nil" THEN m
    ELSE IF \E k \in 1..m.Nvar : translate_vartype(m.VarTypes[k]) = -1
    THEN [m EXCEPT !.err = "panic"]
    ELSE [m EXCEPT !.VarTypes = [k \in 1..m.Nvar |-> translate_vartype(m.VarTypes[k])]]

\* if seek { rdr.reader.Seek(rdr.<field> + k, 0) }
SeekIf(seek, field, k) == IF seek THEN <<SeekTo(F(field), k)>> ELSE <<>>

do_read_varnames(m, bufsize, seek) ==
    Run(m, <<NewBuf("buf", N(bufsize))>>
           \o SeekIf(seek, "seek_varnames", 10)
           \o <<Strs("column_names", "buf", F("Nvar"))>>)

read_varnames(m) ==
    IF m.err # "nil" THEN m
    ELSE CASE m.FormatVersion = 118 -> do_read_varnames(m, 129, TRUE)
          [] m.FormatVersion = 117 -> do_read_varnames(m, 129, TRUE)
          [] m.FormatVersion = 115 -> do_read_varnames(m, 33, FALSE)
          [] m.FormatVersion = 114 -> do_read_varnames(m, 33, FALSE)
          [] OTHER -> [m EXCEPT !.err = "panic"]

\* init: "Skip over srtlist"
skip_srtlist(m) == Run(m, <<Seek(N(2 * (m.Nvar + 1)))>>)

IsDateFormat(fmt) == HasPrefix(fmt, PctTd) \/ HasPrefix(fmt, PctTc)

\* The second loop of do_read_formats.
set_is_date(m) ==
    IF m.err # "nil" THEN m
    ELSE [m EXCEPT !.is_date = [k \in 1..m.Nvar |-> IsDateFormat(m.Formats[k])]]

do_read_formats(m, bufsize, seek) ==
    set_is_date(Run(m, <<NewBuf("buf", N(bufsize))>>
                       \o SeekIf(seek, "seek_formats", 9)
                       \o <<Strs("Formats", "buf", F("Nvar"))>>))

read_formats(m) ==
    IF m.err # "nil" THEN m
    ELSE CASE m.FormatVersion = 118 -> do_read_formats(m, 57, TRUE)
          [] m.FormatVersion = 117 -> do_read_formats(m, 57, TRUE)
          [] m.FormatVersion = 115 -> do_read_formats(m, 49, FALSE)
          [] m.FormatVersion = 114 -> do_read_formats(m, 49, FALSE)
          [] OTHER -> [m EXCEPT !.err = "panic"]

do_read_value_label_names(m, bufsize, seek) ==
    Run(m, <<NewBuf("buf", N(bufsize))>>
           \o SeekIf(seek, "seek_value_label_names", 19)
           \o <<Strs("ValueLabelNames", "buf", F("Nvar"))>>)

read_value_label_names(m) ==
    IF m.err # "nil" THEN m
    ELSE CASE m.FormatVersion = 118 -> do_read_value_label_names(m, 129, TRUE)
          [] m.FormatVersion = 117 -> do_read_value_label_names(m, 129, TRUE)
          [] m.FormatVersion = 116 -> do_read_value_label_names(m, 33, FALSE)
          [] m.FormatVersion = 115 -> do_read_value_label_names(m, 33, FALSE)
          [] OTHER -> [m EXCEPT !.err = "panic"]

do_read_variable_labels(m, bufsize, seek) ==
    Run(m, <<NewBuf("buf", N(bufsize))>>
           \o SeekIf(seek, "seek_variable_labels", 17)
           \o <<Strs("ColumnNamesLong", "buf", F("Nvar"))>>)

read_variable_labels(m) ==
    IF m.err # "nil" THEN m
    ELSE CASE m.FormatVersion = 118 -> do_read_variable_labels(m, 321, TRUE)
          [] m.FormatVersion = 117 -> do_read_variable_labels(m, 321, TRUE)
          [] m.FormatVersion = 115 -> do_read_variable_labels(m, 81, FALSE)
          [] m.FormatVersion = 114 -> do_read_variable_labels(m, 81, FALSE)
          [] OTHER -> m

\* The loop of read_expansion_fields; was is m at the start of the
\* iteration.  The loop never ends ("hang") once the source has ended with
\* b, i not both zero, or when an iteration changes nothing.
RECURSIVE expansion_loop(_)
expansion_next(was, m) ==
    IF m.b = 0 /\ m.i = 0 THEN m
    ELSE IF (was.pos >= Len(file) /\ m.i >= 0)
            \/ (SeekCur(m.pos, m.i) = was.pos /\ m.b = was.b /\ m.i = was.i)
    THEN [m EXCEPT !.err = "hang"]
    ELSE expansion_loop(Run(m, <<Seek(F("i"))>>))

expansion_loop(m) ==
    IF m.err # "nil" THEN m
    ELSE expansion_next(m, Run(m, <<Bin("b", 1, "uint"), Bin("i", 4, "int")>>))

read_expansion_fields(m) ==
    expansion_loop(Run(m, <<Var("b", 0), Var("i", 0)>>))

\* The loop of read_strls; was is m at the start of the iteration.  Once
\* the source has ended with "GSO" still in buf3 the loop never ends.
RECURSIVE strls_loop(_)
strls_next(was, m) ==
    IF m.buf3 # GSO THEN m
    ELSE IF was.pos >= Len(file) THEN [m EXCEPT !.err = "hang"]
    ELSE strls_loop(Run(m,
            << Bin("v", 4, "bytes"),
               Bin("o", 8, "bytes"),
               Bin("t", 1, "uint"),
               Bin("length", 4, "uint"),
               NewBuf("buf", F("length")),
               Rd("buf", F("length")),
               Do("if t == 130 { rdr.Strls[ky] = string(partition(buf)) } else if t == 129 { rdr.StrlsBytes[ky] = buf }") >>))

strls_loop(m) ==
    IF m.err # "nil" THEN m
    ELSE strls_next(m, Run(m, <<Rd("buf3", N(3))>>))

read_strls(m) ==
    strls_loop(Run(m,
        << SeekTo(F("seek_strls"), 7),
           Var("v", Zeros(4)),
           Var("o", Zeros(8)),
           Var("t", 0),
           Var("length", 0),
           Do("rdr.Strls[0] = empty"),
           NewBuf("buf3", N(3)) >>))

\* The loop of read_value_labels.  The loop replaces buf by the text block
\* of the label set it has just read: buf[0:5] and buf[0:129] panic when
\* buf has become shorter than that.
RECURSIVE value_labels_loop(_)
value_labels_next(m) ==
    IF m.err # "nil" \/ SubSeq(m.buf, 1, 5) # LBL THEN m
    ELSE value_labels_loop(Run(m,
            << Seek(N(4)),
               Rd("buf", N(129)),
               StrZ("labname", "buf", N(129)),
               Seek(N(3)),
               Bin("n", 4, "int"),
               Bin("textlen", 4, "int"),
               Arr("off", 4, "int", F("n")),
               Arr("val", 4, "int", F("n")),
               NewBuf("buf", F("textlen")),
               Rd("buf", F("textlen")),
               Do("vk[val[j]] = string(partition(buf[off[j]:])); vl[labname] = vk"),
               Seek(N(6)) >>))

value_labels_loop(m) ==
    IF m.err # "nil" THEN m
    ELSE value_labels_next(Run(m, <<Rd("buf", N(5))>>))

read_value_labels(m) ==
    Run(value_labels_loop(Run(m,
            << Var("vl", <<>>),
               NewBuf("buf", N(321)),
               SeekTo(F("seek_value_labels"), 14),
               Var("n", 0),
               Var("textlen", 0) >>)),
        << Do("rdr.ValueLabels = vl") >>)

----------------------------------------------------------------------------
(* init *)

\* The next call of init, unless an earlier one has ended it.
init_sections(m) ==
    IF m.err # "nil" THEN m
    ELSE IF m.FormatVersion < 117
    THEN read_expansion_fields(
            read_variable_labels(
                read_value_label_names(
                    read_formats(
                        skip_srtlist(
                            read_varnames(
                                translate_vartypes(
                                    read_vartypes(m))))))))
    ELSE read_value_labels(
            read_strls(
                read_variable_labels(
                    read_value_label_names(
                        read_formats(
                            read_varnames(
                                read_vartypes(m)))))))

init_header(m) ==
    IF m.c = <<60>> THEN read_new_header(m) ELSE read_old_header(m)

init(s) ==
    Leave(init_sections(init_header(
        Run(Enter(s), << NewBuf("c", N(1)), Rd("c", N(1)), SeekTo(N(0), 0) >>))))

----------------------------------------------------------------------------
(* Floats, decimal text, durations *)

\* A float is its IEEE bytes, least significant first.  IsNaN: exponent
\* all ones, mantissa not zero.
IsNaN(x) ==
    IF Len(x) = 8
    THEN x[8] % 128 = 127 /\ x[7] >= 240
         /\ (x[7] > 240 \/ \E k \in 1..6 : x[k] # 0)
    ELSE x[4] % 128 = 127 /\ x[3] >= 128
         /\ (x[3] > 128 \/ \E k \in 1..2 : x[k] # 0)

\* The magnitude bits of x: x with its sign bit cleared.
Magnitude(x) == [x EXCEPT ![Len(x)] = @ % 128]

\* a > b for unsigned numbers of equal length given by their bytes.
RECURSIVE BytesGreater(_, _)
BytesGreater(a, b) ==
    IF a = <<>> THEN FALSE
    ELSE IF a[Len(a)] # b[Len(b)] THEN a[Len(a)] > b[Len(b)]
    ELSE BytesGreater(SubSeq(a, 1, Len(a) - 1), SubSeq(b, 1, Len(b) - 1))

\* (x > c) || (x < -c) for a float x and a positive constant c.
FloatBeyond(x, c) == ~IsNaN(x) /\ BytesGreater(Magnitude(x), c)

\* The float64 nearest 8.988e307 and the float32 nearest 1.701e38.
Float64Limit == <<4, 129, 204, 89, 147, 255, 223, 127>>

Float32Limit == <<35, 240, 255, 126>>

\* fmt.Sprintf("%v", x) of an integer: its decimal text.
RECURSIVE Itoa(_)
Itoa(x) ==
    IF x < 0 THEN <<45>> \o Itoa(0 - x)
    ELSE IF x < 10 THEN <<48 + x>>
    ELSE Itoa(x \div 10) \o <<48 + (x % 10)>>

\* The carries of a column sum propagated into n bytes (the overflow of the
\* last byte is dropped: arithmetic modulo 2^(8n)).
RECURSIVE Carry(_, _, _)
Carry(cols, k, c) ==
    IF k > Len(cols) THEN <<>>
    ELSE <<(cols[k] + c) % 256>> \o Carry(cols, k + 1, (cols[k] + c) \div 256)

RECURSIVE ColumnSum(_, _, _, _)
ColumnSum(a, b, k, i) ==
    IF i > k THEN 0 ELSE a[i] * b[k + 1 - i] + ColumnSum(a, b, k, i + 1)

\* a * b modulo 2^(8n) for two n-byte two's complement numbers.
MulBytes(a, b) ==
    Carry([k \in 1..Len(a) |-> ColumnSum(a, b, k, 1)], 1, 0)

\* time.Millisecond and time.Hour * 24 as n-byte time.Duration values
\* (nanoseconds).
Millisecond(n) == ToBytes(1000000, n)

Hour24(n) == MulBytes(ToBytes(86400000, n), Millisecond(n))

----------------------------------------------------------------------------
(* Read *)

\* The slice Read makes for a column of type t; "nil" when no case of the
\* switch matches.
column_type(s, t) ==
    CASE t <= 2045 -> "string"
      [] t = 32768 -> IF s.InsertStrls THEN "string" ELSE "uint64"
      [] t = 65526 -> "float64"
      [] t = 65527 -> "float32"
      [] t = 65528 -> "int32"
      [] t = 65529 -> "int16"
      [] t = 65530 -> IF s.InsertCategoryLabels THEN "string" ELSE "int8"
      [] OTHER -> "nil"

\* A substitution that knows no label: the decimal text of x for every code.
decimal_text_label(s, j, x) == Itoa(x)

\* The category label of code x in column j, or the decimal text of x.
category_label(s, j, x) ==
    IF s.ValueLabelNames[j] \notin DOMAIN s.ValueLabels THEN Itoa(x)
    ELSE IF x \in DOMAIN s.ValueLabels[s.ValueLabelNames[j]]
    THEN s.ValueLabels[s.ValueLabelNames[j]][x]
    ELSE Itoa(x)

\* A rule for int16 that takes the limits themselves as missing values too.
int16_missing_from_limit(x) == (x >= 32740) \/ (x <= -32767)

int32_missing(x) == (x > 2147483620) \/ (x < -2147483647)

int16_missing(x) == (x > 32740) \/ (x < -32767)

int8_missing(x) == (x < -127) \/ (x > 100)

\* The reads of one cell of type t, its value left in x.
read_cell(m, t) ==
    Run(m, CASE t <= 2045 -> << Rd("buf", N(t)), StrZ("x", "buf", N(t)) >>
             [] t = 32768 -> << Var("x", Zeros(8)), Bin("x", 8, "bytes") >>
             [] t = 65526 -> << Var("x", Zeros(8)), Bin("x", 8, "bytes") >>
             [] t = 65527 -> << Var("x", Zeros(4)), Bin("x", 4, "bytes") >>
             [] t = 65528 -> << Var("x", 0), Bin("x", 4, "int") >>
             [] t = 65529 -> << Var("x", 0), Bin("x", 2, "int") >>
             [] t = 65530 -> << Var("x", 0), Bin("x", 1, "int") >>
             [] OTHER -> << Var("x", 0) >>)

\* What data[j][i] becomes for the x read.
cell_value(m, j, t) ==
    CASE t = 32768 -> IF m.InsertStrls THEN Lookup(m.Strls, m.x) ELSE m.x
      [] t = 65530 -> IF m.InsertCategoryLabels THEN category_label(m, j, m.x)
                      ELSE m.x
      [] OTHER -> m.x

\* What missing[j][i] becomes for the x read.
cell_missing(m, t) ==
    CASE t = 65526 -> FloatBeyond(m.x, Float64Limit)
      [] t = 65527 -> FloatBeyond(m.x, Float32Limit)
      [] t = 65528 -> int32_missing(m.x)
      [] t = 65529 -> int16_missing(m.x)
      [] t = 65530 -> int8_missing(m.x)
      [] OTHER -> FALSE

store_cell(m, j) ==
    IF m.err # "nil" THEN m
    ELSE [m EXCEPT !.vals = Append(@, cell_value(m, j, m.VarTypes[j])),
                   !.missing = Append(@, cell_missing(m, m.VarTypes[j]))]

\* The iteration (i, j) of the loops of Read.
decode_cell(m, j) == store_cell(read_cell(m, m.VarTypes[j]), j)

\* The inner loop of Read for one row: the cells of columns j..Nvar.
RECURSIVE decode_row(_, _)
decode_row(m, j) ==
    IF j > m.Nvar \/ m.err # "nil" THEN m
    ELSE decode_row(decode_cell(m, j), j + 1)

\* The outer loop of Read from row i on.  (Its "break" cannot be taken:
\* nval never exceeds the rows left.)
RECURSIVE decode_rows(_, _)
decode_rows(m, i) ==
    IF i > m.nval \/ m.err # "nil" THEN m
    ELSE IF m.rows_read + 1 > m.RowCount
    THEN [m EXCEPT !.rows_read = @ + 1]
    ELSE decode_rows(decode_row([m EXCEPT !.rows_read = @ + 1], 1), i + 1)

\* A count that takes every call as a call for all the rows left.
read_count_all_left(s, rows) == s.RowCount - s.rows_read

\* nval of Read: the number of rows the call decodes.
read_count(s, rows) ==
    IF (rows >= 0) /\ (s.RowCount - s.rows_read > rows) THEN rows
    ELSE s.RowCount - s.rows_read

\* if rdr.FormatVersion >= 117 { rdr.reader.Seek(rdr.seek_data+6, 0) }
seek_data(s) ==
    IF s.FormatVersion >= 117 THEN <<SeekTo(F("seek_data"), 6)>> ELSE <<>>

\* buf := make([]byte, 2045)
ReadBuffer == Zeros(2045)

\* Read up to the end of its row loop.  vals and missing hold the cells
\* decoded so far, row after row.
read_raw(s, rows) ==
    decode_rows(
        Run(Enter(s),
            << Var("nval", read_count(s, rows)),
               Var("vals", <<>>),
               Var("missing", <<>>),
               Do("missing[j] = make([]bool, nval)") >>
            \o seek_data(s)
            \o << Var("buf", ReadBuffer) >>),
        1)

\* v sign-extended to n bytes.
SignExtend(v, n) ==
    v \o [k \in 1..(n - Len(v)) |-> IF v[Len(v)] >= 128 THEN 255 ELSE 0]

\* The unit of do_convert_dates for a format; <<>> when it panics.
date_unit(format, n) ==
    IF HasPrefix(format, PctTd) THEN Hour24(n)
    ELSE IF HasPrefix(format, PctTc) THEN Millisecond(n)
    ELSE <<>>

\* One element of do_convert_dates: bt.Add(time.Duration(v) * tq), as the
\* nanoseconds from bt = 1960-01-01T00:00:00 UTC to the result: a
\* time.Duration, 64 bits.
convert_date(v, format) == MulBytes(ToBytes(v, 8), date_unit(format, 8))

do_convert_dates(col, format) ==
    IF col.type # "int32" \/ date_unit(format, 8) = <<>>
    THEN [type |-> "panic", v |-> <<>>]
    ELSE [type |-> "time",
          v |-> [i \in 1..Len(col.v) |-> convert_date(col.v[i], format)]]

\* data[j] at the end of the row loop.
raw_column(m, j) ==
    [type |-> column_type(m, m.VarTypes[j]),
     v |-> IF column_type(m, m.VarTypes[j]) = "nil" THEN <<>>
           ELSE [i \in 1..m.nval |-> m.vals[(i - 1) * m.Nvar + j]]]

\* data[j] after the date pass.
data_column(m, j) ==
    IF m.ConvertDates /\ m.is_date[j]
    THEN do_convert_dates(raw_column(m, j), m.Formats[j])
    ELSE raw_column(m, j)

missing_column(m, j) == [i \in 1..m.nval |-> m.missing[(i - 1) * m.Nvar + j]]

NoRows == [n |-> 0, data |-> <<>>, missing |-> <<>>, names |-> <<>>]

\* What Read returns for the columns data.  nilfails: whether NewSeries
\* rejects a column whose data is nil.
read_return(m, data, nilfails) ==
    IF m.err # "nil"
    THEN [rdr |-> Leave(m), out |-> NoRows]
    ELSE IF \E j \in 1..m.Nvar : data[j].type = "panic"
    THEN [rdr |-> Leave([m EXCEPT !.err = "panic"]), out |-> NoRows]
    ELSE IF nilfails /\ \E j \in 1..m.Nvar : data[j].type = "nil"
    THEN [rdr |-> Leave([m EXCEPT !.err = "error"]), out |-> NoRows]
    ELSE [rdr |-> Leave(m),
          out |-> [n |-> m.nval, data |-> data,
                   missing |-> [j \in 1..m.Nvar |-> missing_column(m, j)],
                   names |-> m.column_names]]

read_columns(m, nilfails) ==
    read_return(m,
                IF m.err # "nil" THEN <<>>
                ELSE [j \in 1..m.Nvar |-> data_column(m, j)],
                nilfails)

\* The body of Read(rows): the reader after the call and what the call
\* returns.
read_rows(s, rows, nilfails) == read_columns(read_raw(s, rows), nilfails)

----------------------------------------------------------------------------
(* Well-formed files.                                                      *)
(*                                                                         *)
(* A file is described by d: its version, byte order ("little" or "big"),  *)
(* label, time stamp, columns (kind, width, name, fmt, vl, lab), rows      *)
(* (one cell per column), expansion fields (typ, content), strl records    *)
(* (v, o, t, content), label sets (name, vals, texts).  BuildFile lays     *)
(* its bytes out where the readers above look for them.                    *)

\* The type code the file holds for a column.
DiskCode(ver, col) ==
    CASE col.kind = "str" -> col.width
      [] col.kind = "code" -> col.width
      [] col.kind = "strl" -> 32768
      [] col.kind = "float64" -> IF ver < 117 THEN 255 ELSE 65526
      [] col.kind = "float32" -> IF ver < 117 THEN 254 ELSE 65527
      [] col.kind = "int32" -> IF ver < 117 THEN 253 ELSE 65528
      [] col.kind = "int16" -> IF ver < 117 THEN 252 ELSE 65529
      [] col.kind = "int8" -> IF ver < 117 THEN 251 ELSE 65530

\* The bytes of one cell: text is null-padded to the column's width, an
\* integer is encoded at its width, a float or a strl key is given by its
\* bytes, least significant first.
CellBytes(col, cell, bo) ==
    CASE col.kind = "str" -> Pad(cell, col.width)
      [] col.kind = "code" -> <<>>
      [] col.kind = "strl" -> Sig(cell, bo)
      [] col.kind = "float64" -> Sig(cell, bo)
      [] col.kind = "float32" -> Sig(cell, bo)
      [] col.kind = "int32" -> Enc(cell, 4, bo)
      [] col.kind = "int16" -> Enc(cell, 2, bo)
      [] col.kind = "int8" -> Enc(cell, 1, bo)

DataBytes(d) ==
    Flatten([i \in 1..Len(d.rows) |->
        Flatten([j \in 1..Len(d.cols) |-> CellBytes(d.cols[j], d.rows[i][j], d.bo)])])

Fields(d, field(_), width) ==
    Flatten([j \in 1..Len(d.cols) |-> Pad(field(d.cols[j]), width)])

ColName(col) == col.name

ColFmt(col) == col.fmt

ColVl(col) == col.vl

ColLab(col) == col.lab

ExpansionBytes(d) ==
    Flatten([k \in 1..Len(d.exp) |->
        <<d.exp[k].typ>> \o Enc(Len(d.exp[k].content), 4, d.bo) \o d.exp[k].content])
    \o Zeros(5)

StrlBytes(d) ==
    Flatten([k \in 1..Len(d.strls) |->
        GSO \o Sig(d.strls[k].v, d.bo) \o Sig(d.strls[k].o, d.bo)
            \o <<d.strls[k].t>> \o Enc(Len(d.strls[k].content), 4, d.bo)
            \o d.strls[k].content])

\* The text block of a label set: its labels, each null-terminated.
LabelText(ls) == Flatten([j \in 1..Len(ls.texts) |-> ls.texts[j] \o <<0>>])

\* The offset of label j in the text block.
RECURSIVE LabelOff(_, _)
LabelOff(ls, j) ==
    IF j <= 1 THEN 0 ELSE LabelOff(ls, j - 1) + Len(ls.texts[j - 1]) + 1

\* The bytes of a label set whose text block is text.
LabelSetOf(ls, bo, text) ==
    LBL \o Enc(8 + 8 * Len(ls.vals) + Len(text), 4, bo)
        \o Pad(ls.name, 129) \o Zeros(3)
        \o Enc(Len(ls.vals), 4, bo) \o Enc(Len(text), 4, bo)
        \o Flatten([j \in 1..Len(ls.vals) |-> Enc(LabelOff(ls, j), 4, bo)])
        \o Flatten([j \in 1..Len(ls.vals) |-> Enc(ls.vals[j], 4, bo)])
        \o text \o <<60, 47, 108, 98, 108, 62>>

LabelSetBytes(ls, bo) == LabelSetOf(ls, bo, LabelText(ls))

ValueLabelBytes(d) ==
    Flatten([k \in 1..Len(d.labels) |-> LabelSetBytes(d.labels[k], d.bo)])

Open(name) == <<60>> \o name \o <<62>>

Close(name) == <<60, 47>> \o name \o <<62>>

Section(name, body) == Open(name) \o body \o Close(name)

\* The offsets of the sections whose lengths are lens, the first at start.
RECURSIVE Offsets(_, _)
Offsets(start, lens) ==
    IF lens = <<>> THEN <<start>>
    ELSE <<start>> \o Offsets(start + Head(lens), Tail(lens))

BuildOld(d) ==
    <<d.ver, IF d.bo = "big" THEN 1 ELSE 2, 1, 0>>
    \o Enc(Len(d.cols), nvar_width[d.ver], d.bo)
    \o Enc(Len(d.rows), row_count_width[d.ver], d.bo)
    \o Pad(d.label, 81) \o Pad(d.ts, 18)
    \o [j \in 1..Len(d.cols) |-> DiskCode(d.ver, d.cols[j])]
    \o Fields(d, ColName, 33)
    \o Zeros(2 * (Len(d.cols) + 1))
    \o Fields(d, ColFmt, 49)
    \o Fields(d, ColVl, 33)
    \o Fields(d, ColLab, 81)
    \o ExpansionBytes(d)
    \o DataBytes(d)

\* <stata_dta><header> ... </header>
NewHeader(d) ==
    Open(<<115, 116, 97, 116, 97, 95, 100, 116, 97>>)
    \o Open(<<104, 101, 97, 100, 101, 114>>)
    \o Section(<<114, 101, 108, 101, 97, 115, 101>>,
               IF d.ver = 118 THEN <<49, 49, 56>> ELSE <<49, 49, 55>>)
    \o Section(<<98, 121, 116, 101, 111, 114, 100, 101, 114>>,
               IF d.bo = "big" THEN MSF ELSE LSF)
    \o Section(<<75>>, Enc(Len(d.cols), nvar_width[d.ver], d.bo))
    \o Section(<<78>>, Enc(Len(d.rows), row_count_width[d.ver], d.bo))
    \o Section(<<108, 97, 98, 101, 108>>,
               Enc(Len(d.label), dataset_label_width[d.ver], d.bo) \o d.label)
    \o Section(<<116, 105, 109, 101, 115, 116, 97, 109, 112>>,
               Enc(Len(d.ts), 1, d.bo) \o d.ts)
    \o Close(<<104, 101, 97, 100, 101, 114>>)

\* <variable_types> ... <value_labels>, the ten sections the map points at.
NewSections(d) ==
    << Section(<<118, 97, 114, 105, 97, 98, 108, 101, 95, 116, 121, 112, 101, 115>>,
               Flatten([j \in 1..Len(d.cols) |->
                          Enc(DiskCode(d.ver, d.cols[j]), 2, d.bo)])),
       Section(<<118, 97, 114, 110, 97, 109, 101, 115>>, Fields(d, ColName, 129)),
       Section(<<115, 111, 114, 116, 108, 105, 115, 116>>,
               Zeros(2 * (Len(d.cols) + 1))),
       Section(<<102, 111, 114, 109, 97, 116, 115>>, Fields(d, ColFmt, 57)),
       Section(<<118, 97, 108, 117, 101, 95, 108, 97, 98, 101, 108, 95, 110, 97,
                 109, 101, 115>>, Fields(d, ColVl, 129)),
       Section(<<118, 97, 114, 105, 97, 98, 108, 101, 95, 108, 97, 98, 101, 108,
                 115>>, Fields(d, ColLab, 321)),
       Section(<<99, 104, 97, 114, 97, 99, 116, 101, 114, 105, 115, 116, 105, 99,
                 115>>, <<>>),
       Section(<<100, 97, 116, 97>>, DataBytes(d)),
       Section(<<115, 116, 114, 108, 115>>, StrlBytes(d)),
       Section(<<118, 97, 108, 117, 101, 95, 108, 97, 98, 101, 108, 115>>,
               ValueLabelBytes(d)) >>

\* <map>: 14 offsets of 8 bytes: the start of the file, of the map, of the
\* ten sections, of </stata_dta> and the end of the file.
NewMap(bo, mapat, offs) ==
    Section(<<109, 97, 112>>,
            Enc(0, 8, bo) \o Enc(mapat, 8, bo)
            \o Flatten([k \in 1..10 |-> Enc(offs[k], 8, bo)])
            \o Enc(offs[11], 8, bo) \o Enc(offs[11] + 12, 8, bo))

Assemble(d, header, sections) ==
    header
    \o NewMap(d.bo, Len(header),
              Offsets(Len(header) + 5 + 14 * 8 + 6,
                      [k \in 1..10 |-> Len(sections[k])]))
    \o Flatten(sections)
    \o Close(<<115, 116, 97, 116, 97, 95, 100, 116, 97>>)

BuildNew(d) == Assemble(d, NewHeader(d), NewSections(d))

BuildFile(d) == IF d.ver < 117 THEN BuildOld(d) ELSE BuildNew(d)

\* The first cut bytes of all; all of it when cut < 0.
Truncate(all, cut) == IF cut < 0 THEN all ELSE SubSeq(all, 1, Min(cut, Len(all)))

\* The bytes of the file described by d, cut short when d.cut >= 0.
FileOf(d) == Truncate(BuildFile(d), d.cut)

----------------------------------------------------------------------------
(* The files of the model *)

MaxRows == 3

Versions == {114, 115, 117, 118}

ByteOrders == {"little", "big"}

Column(kind, width, name, fmt, vl) ==
    [kind |-> kind, width |-> width, name |-> name, fmt |-> fmt, vl |-> vl,
     lab |-> name \o <<32, 108, 97, 98>>]

FmtG == <<37, 57, 46, 48, 103>>  \* "%9.0g"

FmtS == <<37, 57, 115>>  \* "%9s"

Describe(family, ver, bo, cols, rows) ==
    [family |-> family, ver |-> ver, bo |-> bo, label |-> <<100, 97, 116, 97>>,
     ts |-> <<49, 32, 74, 97, 110>>, cols |-> cols, rows |-> rows,
     exp |-> <<>>, strls |-> <<>>, labels |-> <<>>, cut |-> -1]

\* An int16 and a 2-byte string column, row i holding i and "r<i>".
RowColumns ==
    << Column("int16", 0, <<97>>, FmtG, <<>>),
       Column("str", 2, <<98>>, FmtS, <<>>) >>

RowsOf(n) == [i \in 1..n |-> <<i, <<114, 48 + i>>>>]

RowFiles ==
    { Describe("rows", ver, bo, RowColumns, RowsOf(n)) :
        ver \in Versions, bo \in ByteOrders, n \in 0..MaxRows }

\* An int8, an int16 and an int32 column holding, row by row, the values at,
\* inside and beyond the upper and the lower limits of their types.
BoundaryColumns ==
    << Column("int8", 0, <<97>>, FmtG, <<>>),
       Column("int16", 0, <<98>>, FmtG, <<>>),
       Column("int32", 0, <<99>>, FmtG, <<>>) >>

BoundaryRows ==
    << <<100, 32740, 2147483620>>,
       <<99, 32739, 2147483619>>,
       <<101, 32741, 2147483621>>,
       <<-127, -32767, -2147483647>>,
       <<-126, -32766, -2147483646>>,
       <<-128, -32768, -2147483647 - 1>> >>

BoundaryFiles ==
    { Describe("boundary", ver, bo, BoundaryColumns, BoundaryRows) :
        ver \in Versions, bo \in ByteOrders }

\* Zero rows, one column of each type the version can hold.
MinimalColumns(ver) ==
    << Column("str", 5, <<115>>, FmtS, <<>>),
       Column("float64", 0, <<100>>, FmtG, <<>>),
       Column("float32", 0, <<102>>, FmtG, <<>>),
       Column("int32", 0, <<108>>, FmtG, <<>>),
       Column("int16", 0, <<105>>, FmtG, <<>>),
       Column("int8", 0, <<98>>, FmtG, <<>>) >>
    \o (IF ver >= 117 THEN <<Column("strl", 0, <<76>>, FmtS, <<>>)>> ELSE <<>>)

MinimalFiles ==
    { Describe("minimal", ver, bo, MinimalColumns(ver), <<>>) :
        ver \in Versions, bo \in ByteOrders }

\* Files cut short: in the header, in the metadata, in the rows.
CutPoints(d) ==
    {0, 1, 60, 150} \cup {Len(BuildFile(d)) - k : k \in {1, 3, 40, 64, 66}}

TruncatedFiles ==
    UNION { { [d EXCEPT !.family = "truncated", !.cut = c] : c \in CutPoints(d) } :
            d \in { Describe("rows", ver, "little", RowColumns, RowsOf(2)) :
                      ver \in {115, 117, 118} } }

\* Label sets.  LabelSet(name, vals, texts): code vals[j] has label texts[j].
LabelSet(name, vals, texts) == [name |-> name, vals |-> vals, texts |-> texts]

\* A text of n bytes.
Text(n) == [k \in 1..n |-> 97 + (k % 26)]

\* Two int8 columns, the first with the label set "lab", the second with a
\* label set name that has no set, and an int16 column after them.
LabelColumns ==
    << Column("int8", 0, <<97>>, FmtG, <<108, 97, 98>>),
       Column("int8", 0, <<98>>, FmtG, <<110, 111, 110, 101>>),
       Column("int16", 0, <<99>>, FmtG, <<>>) >>

LabelRows == << <<1, 5, 7>>, <<2, 1, 8>> >>

\* No label set; one label set whose text block has 2, 8 or 140 bytes; the
\* same followed by a second label set.
LabelSets ==
    { <<>> }
    \cup { <<LabelSet(<<108, 97, 98>>, <<1>>, <<Text(n)>>)>> : n \in {1, 7, 139} }
    \cup { <<LabelSet(<<108, 97, 98>>, <<1>>, <<Text(n)>>),
             LabelSet(<<111, 116, 104>>, <<1, 2>>, <<Text(3), Text(4)>>)>> :
           n \in {7, 139} }
    \cup { <<LabelSet(<<111, 116, 104>>, <<3, 4>>, <<Text(70), Text(70)>>),
             LabelSet(<<108, 97, 98>>, <<1, 1>>, <<Text(3), Text(4)>>)>> }

LabelFiles ==
    { [Describe("labels", ver, "little", LabelColumns, LabelRows)
         EXCEPT !.labels = IF ver >= 117 THEN sets ELSE <<>>] :
        ver \in {115, 117, 118}, sets \in LabelSets }

\* Strl records.  Gso(v, o, t, content): v and o by their bytes, least
\* significant first.
Gso(v, o, t, content) == [v |-> v, o |-> o, t |-> t, content |-> content]

\* A strl column, a cell for each key of interest, and a 1-byte string
\* column after it.
StrlColumns ==
    << Column("strl", 0, <<97>>, FmtS, <<>>),
       Column("str", 1, <<98>>, FmtS, <<>>) >>

\* The cells: key 7 | (3 << 16), key 65536, keys that no record has (9 and
\* 2 | (1 << 16)), key 0.
StrlRows ==
    << << <<7, 0, 3, 0, 0, 0, 0, 0>>, <<49>> >>,
       << <<0, 0, 1, 0, 0, 0, 0, 0>>, <<50>> >>,
       << <<9, 0, 0, 0, 0, 0, 0, 0>>, <<51>> >>,
       << <<2, 0, 1, 0, 0, 0, 0, 0>>, <<52>> >>,
       << <<0, 0, 0, 0, 0, 0, 0, 0>>, <<53>> >> >>

V7 == <<7, 0, 0, 0>>

O3 == <<3, 0, 0, 0, 0, 0, 0, 0>>

\* No record; one text record; text records and a binary one; records
\* whose v has bits above the low 16 (v = 65536, o = 0 against v = 0, o = 1).
StrlSets ==
    { <<>>,
      << Gso(V7, O3, 130, <<104, 105, 0, 120>>) >>,
      << Gso(V7, O3, 130, <<104, 105>>),
         Gso(<<2, 0, 0, 0>>, <<1, 0, 0, 0, 0, 0, 0, 0>>, 129, <<1, 0, 2>>),
         Gso(<<0, 0, 0, 0>>, <<1, 0, 0, 0, 0, 0, 0, 0>>, 130, <<66>>) >>,
      << Gso(<<0, 0, 1, 0>>, <<0, 0, 0, 0, 0, 0, 0, 0>>, 130, <<65>>),
         Gso(<<0, 0, 0, 0>>, <<1, 0, 0, 0, 0, 0, 0, 0>>, 130, <<66>>) >>,
      << Gso(<<0, 0, 0, 0>>, <<1, 0, 0, 0, 0, 0, 0, 0>>, 130, <<66>>),
         Gso(<<0, 0, 1, 0>>, <<0, 0, 0, 0, 0, 0, 0, 0>>, 130, <<65>>) >> }

StrlFiles ==
    { [Describe("strls", f[1], f[2], StrlColumns, StrlRows) EXCEPT !.strls = recs] :
        f \in {<<117, "little">>, <<118, "big">>}, recs \in StrlSets }

\* Expansion fields.  Field(typ, content)
Field(typ, content) == [typ |-> typ, content |-> content]

ExpansionSets ==
    { <<>>,
      << Field(1, Text(3)) >>,
      << Field(1, Text(3)), Field(2, <<>>), Field(1, Text(9)) >> }

ExpansionFiles ==
    { [Describe("expansion", ver, bo, RowColumns, RowsOf(2)) EXCEPT !.exp = fields] :
        ver \in {115}, bo \in ByteOrders, fields \in ExpansionSets }

\* A column whose type code is none the readers know, between two known ones.
UnknownCodes(ver) == IF ver < 117 THEN {245, 250} ELSE {2046, 3000, 65525}

TypeFiles ==
    UNION { { Describe("types", ver, "little",
                       << Column("int16", 0, <<97>>, FmtG, <<>>),
                          Column("code", code, <<98>>, FmtG, <<>>),
                          Column("str", 2, <<99>>, FmtS, <<>>) >>,
                       << <<1, 0, <<120>>>> >>) : code \in UnknownCodes(ver) } :
            ver \in {115, 117, 118} }

\* A %td, a %tc and a plain int32 column.
DateColumns ==
    << Column("int32", 0, <<100>>, PctTd, <<>>),
       Column("int32", 0, <<99>>, PctTc \o <<72, 72>>, <<>>),
       Column("int32", 0, <<110>>, FmtG, <<>>) >>

\* The numbers of days / milliseconds of the rows.  106751 days are the
\* most a time.Duration can hold.
DateValues == {0, 1, 1000, -1, 106751, 106752, -106752, 2936549}

DateFiles ==
    { Describe("dates", f[1], f[2], DateColumns, << <<v, v, v>> >>) :
        f \in {<<115, "big">>, <<118, "little">>}, v \in DateValues }

\* A column of any type the row loop of Read decodes, with a date format,
\* and an int16 column after it; one row.
DatedKinds(ver) ==
    {"str", "float64", "float32", "int32", "int16", "int8"}
    \cup (IF ver >= 117 THEN {"strl"} ELSE {})

DatedCell(kind) ==
    CASE kind = "str" -> <<49, 50>>
      [] kind = "strl" -> Zeros(8)
      [] kind = "float64" -> <<0, 0, 0, 0, 0, 0, 240, 63>>
      [] kind = "float32" -> <<0, 0, 128, 63>>
      [] OTHER -> 1

DatedFiles ==
    UNION { { Describe("dated", ver, "little",
                       << Column(kind, IF kind = "str" THEN 2 ELSE 0, <<100>>, fmt, <<>>),
                          Column("int16", 0, <<110>>, FmtG, <<>>) >>,
                       << <<DatedCell(kind), 5>> >>) :
                kind \in DatedKinds(ver), fmt \in {PctTd, PctTc \o <<72, 72>>} } :
            ver \in {115, 118} }

Descriptions ==
    RowFiles \cup BoundaryFiles \cup MinimalFiles \cup TruncatedFiles
    \cup LabelFiles \cup StrlFiles \cup ExpansionFiles \cup TypeFiles
    \cup DateFiles \cup DatedFiles

----------------------------------------------------------------------------
(* The state machine *)

Init ==
    /\ desc \in Descriptions
    /\ file = FileOf(desc)
    /\ rdr = NewReader
    /\ status = "new"
    /\ ret = [op |-> "none", rows |-> 0, from |-> 0, err |-> FALSE, out |-> NoRows]

\* NewStataReader(r): returns the reader, or nil and an error.
NewStataReader ==
    /\ status = "new"
    /\ \E s \in {init(rdr)} :
         /\ rdr' = [s EXCEPT !.err = "nil"]
         /\ status' = IF s.err = "nil" THEN "ready" ELSE s.err
         /\ ret' = [op |-> "NewStataReader", rows |-> 0, from |-> 0,
                    err |-> s.err = "error", out |-> NoRows]
    /\ UNCHANGED <<desc, file>>

\* rdr.Read(rows)
Read ==
    /\ status = "ready"
    /\ \E rows \in -1..MaxRows, nilfails \in BOOLEAN :
         /\ nilfails => \E j \in 1..rdr.Nvar :
                            column_type(rdr, rdr.VarTypes[j]) = "nil"
         /\ \E r \in {read_rows(rdr, rows, nilfails)} :
              /\ rdr' = [r.rdr EXCEPT !.err = "nil"]
              /\ status' = IF r.rdr.err = "panic" THEN "panic" ELSE "ready"
              /\ ret' = [op |-> "Read", rows |-> rows, from |-> rdr.rows_read,
                         err |-> r.rdr.err = "error", out |-> r.out]
    /\ UNCHANGED <<desc, file>>

\* The caller sets the exported option fields of the reader it has got,
\* before it reads.
SetOptions ==
    /\ status = "ready"
    /\ ret.op = "NewStataReader"
    /\ \E strls, labels, dates \in BOOLEAN :
         rdr' = [rdr EXCEPT !.InsertStrls = strls,
                            !.InsertCategoryLabels = labels,
                            !.ConvertDates = dates]
    /\ UNCHANGED <<desc, file, status, ret>>

Next == NewStataReader \/ Read \/ SetOptions

Spec == Init /\ [][Next]_vars

----------------------------------------------------------------------------
(* What the calls are expected to return, from what the file was written   *)
(* from                                                                    *)

\* The last call was a Read that returned rows.
ReadReturned == ret.op = "Read" /\ status = "ready" /\ ~ret.err

\* Row i, column j of what the last Read returned, and its mask.
Cell(i, j) == ret.out.data[j].v[i]

Mask(i, j) == ret.out.missing[j][i]

\* The row of the file that row i of the last Read was decoded from: a Read
\* of a version 117 or 118 file seeks to the first row in every call.
FileRow(i) == IF desc.ver >= 117 THEN i ELSE ret.from + i

\* Row i of the last Read holds the integer x in column j (as the column's
\* integer type, or as its decimal text in a column of strings).
DecodedInt(i, j, x) ==
    IF ret.out.data[j].type = "string" THEN Cell(i, j) = Itoa(x)
    ELSE Cell(i, j) = x

\* The normalized type tag of a column.
Tag(col) ==
    CASE col.kind = "str" -> col.width
      [] col.kind = "code" -> col.width
      [] col.kind = "strl" -> 32768
      [] col.kind = "float64" -> 65526
      [] col.kind = "float32" -> 65527
      [] col.kind = "int32" -> 65528
      [] col.kind = "int16" -> 65529
      [] col.kind = "int8" -> 65530

\* The number of rows Read(rows) is to decode when left rows are left.
Wanted(rows, left) == IF rows >= 0 THEN Min(rows, left) ELSE left

----------------------------------------------------------------------------
(* C1 *)

\* C1 (as claimed): for every supported version, a Read made when
\* rows_read = r returns normally, and returns the rows [r, r+n) of the
\* file and nothing else.
C1_ConsecutiveRanges ==
    (ret.op = "Read" /\ desc.family = "rows") =>
        /\ ReadReturned
        /\ ret.out.n = Wanted(ret.rows, Len(desc.rows) - ret.from)
        /\ \A i \in 1..ret.out.n : \A j \in 1..Len(desc.cols) :
              Cell(i, j) = desc.rows[ret.from + i][j]

----------------------------------------------------------------------------
(* C2 *)

\* C2: a Read(rows) that returns decodes min(rows, RowCount - rows_read)
\* rows (all the rows left when rows < 0) and advances rows_read by that
\* number; rows_read stays within 0..RowCount; with no rows left a Read
\* returns zero rows.
C2_RowsDecoded ==
    /\ rdr.rows_read >= 0 /\ rdr.rows_read <= rdr.RowCount
    /\ (ret.op = "Read" /\ status = "ready") =>
          /\ rdr.rows_read = ret.from + Wanted(ret.rows, rdr.RowCount - ret.from)
          /\ ~ret.err =>
                /\ ret.out.n = Wanted(ret.rows, rdr.RowCount - ret.from)
                /\ \A j \in 1..rdr.Nvar :
                      ret.out.data[j].type # "nil" =>
                          Len(ret.out.data[j].v) = ret.out.n
                /\ \A j \in 1..rdr.Nvar : Len(ret.out.missing[j]) = ret.out.n
                /\ ret.from = rdr.RowCount => ret.out.n = 0

\* A Read(1) in the middle of a file of three rows, and a Read(-1) that
\* returned the two rows left of a file of three rows.
C2_PartialRead ==
    /\ ReadReturned /\ rdr.RowCount = 3
    /\ \/ ret.rows = 1 /\ ret.from = 1 /\ ret.out.n = 1 /\ rdr.rows_read = 2
       \/ ret.rows = -1 /\ ret.from = 1 /\ ret.out.n = 2 /\ rdr.rows_read = 3

----------------------------------------------------------------------------
(* C3 *)

\* The largest and the smallest value of an integer type that is not a
\* missing value.
Upper(kind) ==
    CASE kind = "int8" -> 100 [] kind = "int16" -> 32740
      [] kind = "int32" -> 2147483620

Lower(kind) ==
    CASE kind = "int8" -> -127 [] kind = "int16" -> -32767
      [] kind = "int32" -> -2147483647

IntKinds == {"int8", "int16", "int32"}

\* C3 (as claimed): a decoded value at the boundary (Upper or Lower) is
\* flagged missing, a value one unit inside the boundary is not.
C3_BoundaryFlagged ==
    (ReadReturned /\ desc.family = "boundary") =>
        \A i \in 1..ret.out.n : \A j \in 1..Len(desc.cols) :
            /\ \A x \in {Upper(desc.cols[j].kind), Lower(desc.cols[j].kind)} :
                  DecodedInt(i, j, x) => Mask(i, j)
            /\ \A x \in {Upper(desc.cols[j].kind) - 1, Lower(desc.cols[j].kind) + 1} :
                  DecodedInt(i, j, x) => ~Mask(i, j)

\* C3 (amended): a decoded value one unit beyond the boundary is flagged
\* missing; the value at the boundary and the value one unit inside it are
\* not.
C3_BeyondBoundaryFlagged ==
    (ReadReturned /\ desc.family = "boundary") =>
        \A i \in 1..ret.out.n : \A j \in 1..Len(desc.cols) :
            /\ \A x \in {Upper(desc.cols[j].kind) + 1, Lower(desc.cols[j].kind) - 1} :
                  DecodedInt(i, j, x) => Mask(i, j)
            /\ \A x \in {Upper(desc.cols[j].kind), Lower(desc.cols[j].kind),
                         Upper(desc.cols[j].kind) - 1, Lower(desc.cols[j].kind) + 1} :
                  DecodedInt(i, j, x) => ~Mask(i, j)

\* A Read has returned 32740 in an int16 column, not flagged, and 32741 in
\* the row after the next, flagged.
C3_BoundaryDecoded ==
    /\ ReadReturned /\ desc.family = "boundary" /\ ret.out.n >= 3
    /\ Cell(1, 2) = 32740 /\ ~Mask(1, 2)
    /\ Cell(3, 2) = 32741 /\ Mask(3, 2)
    /\ Cell(3, 3) = 2147483621 /\ Mask(3, 3)

----------------------------------------------------------------------------
(* C4 *)

\* C4 (as claimed): NewStataReader of a minimal file (no rows, a column of
\* each type) of any of the four versions returns a reader that holds the
\* header fields, the column names and the type tags of the file; for
\* version 114 it holds no value label names.
C4_MinimalFileRecovered ==
    (desc.family = "minimal" /\ status # "new") =>
        /\ status = "ready"
        /\ rdr.FormatVersion = desc.ver
        /\ rdr.ByteOrder = desc.bo
        /\ rdr.Nvar = Len(desc.cols)
        /\ rdr.RowCount = 0
        /\ rdr.DatasetLabel = desc.label
        /\ rdr.TimeStamp = desc.ts
        /\ rdr.column_names = [j \in 1..Len(desc.cols) |-> desc.cols[j].name]
        /\ rdr.VarTypes = [j \in 1..Len(desc.cols) |-> Tag(desc.cols[j])]
        /\ desc.ver = 114 =>
              \A j \in 1..Len(rdr.ValueLabelNames) : rdr.ValueLabelNames[j] = <<>>

----------------------------------------------------------------------------
(* C5 *)

\* C5 (as claimed): when the source ended before a call had read all the
\* bytes it asked for, NewStataReader returns an error (and no reader) and
\* Read returns an error and no rows.
C5_ShortReadReported ==
    /\ (ret.op = "NewStataReader" /\ rdr.short) => status = "error"
    /\ (ret.op = "Read" /\ rdr.short) => (ret.err /\ ret.out = NoRows)

----------------------------------------------------------------------------
(* C6 *)

\* The label the column with label set name vl gets for code x.
LabelOrText(vl, x) ==
    IF vl \in DOMAIN rdr.ValueLabels /\ x \in DOMAIN rdr.ValueLabels[vl]
    THEN rdr.ValueLabels[vl][x]
    ELSE Itoa(x)

\* C6: with InsertCategoryLabels set, a Read returns normally, and in every
\* row it returns the cell of an int8 column holds the label of its code x
\* if ValueLabels has a set of the column's label set name with an entry for
\* x, and the decimal text of x if there is no such set (none at all for
\* versions below 117) or no such entry; the cells of the other columns of
\* the row are decoded.
C6_LabelOrDecimalText ==
    (ret.op = "Read" /\ desc.family \in {"labels", "boundary"}
        /\ rdr.InsertCategoryLabels) =>
        /\ ReadReturned
        /\ \A i \in 1..ret.out.n : \A j \in 1..Len(desc.cols) :
              IF desc.cols[j].kind = "int8"
              THEN /\ ret.out.data[j].type = "string"
                   /\ Cell(i, j) = LabelOrText(desc.cols[j].vl,
                                               desc.rows[FileRow(i)][j])
                   /\ desc.ver < 117 => Cell(i, j) = Itoa(desc.rows[FileRow(i)][j])
              ELSE Cell(i, j) = desc.rows[FileRow(i)][j]

\* A Read of a version 117 file has returned the label of code 1, "2" for
\* code 2 that the set has no entry for, "5" for the code of a column whose
\* set does not exist, and the int16 cells after them.
C6_LabelAndFallbacks ==
    /\ ReadReturned /\ desc.family = "labels" /\ desc.ver = 117
    /\ rdr.InsertCategoryLabels /\ ret.out.n = 2
    /\ Cell(1, 1) = Text(7)
    /\ Cell(2, 1) = <<50>>
    /\ Cell(1, 2) = <<53>>
    /\ Cell(1, 3) = 7 /\ Cell(2, 3) = 8

----------------------------------------------------------------------------
(* C7 *)

\* The records of the file that hold text.
TextRecords == { k \in 1..Len(desc.strls) : desc.strls[k].t = 130 }

\* C7 (as claimed): distinct (v, o) give distinct keys, so with InsertStrls
\* set a cell that holds v | (o << 16) of a text record (v, o, text) of the
\* file decodes to that text up to its first null, and a cell whose value is
\* the key of no text record decodes to "".
C7_CellDecodesToItsRecord ==
    (ReadReturned /\ desc.family = "strls" /\ rdr.InsertStrls) =>
        \A i \in 1..ret.out.n :
            /\ \A k \in TextRecords :
                  desc.rows[FileRow(i)][1] = strl_key(desc.strls[k].v, desc.strls[k].o)
                      => Cell(i, 1) = partition(desc.strls[k].content)
            /\ (\A k \in TextRecords :
                  desc.rows[FileRow(i)][1] # strl_key(desc.strls[k].v, desc.strls[k].o))
                      => Cell(i, 1) = <<>>

----------------------------------------------------------------------------
(* C8 *)

\* Where the last loop of init is to stop: for a version below 117 behind
\* the expansion fields (where the rows begin), else behind the 5 bytes
\* that follow the last label set, the first 5 of "</value_labels>".
LoopsEnd ==
    IF desc.ver < 117 THEN Len(file) - Len(DataBytes(desc))
    ELSE Len(file) - Len(Close(<<118, 97, 108, 117, 101, 95, 108, 97, 98, 101, 108, 115>>))
                   - Len(Close(<<115, 116, 97, 116, 97, 95, 100, 116, 97>>)) + 5

\* C8 (as claimed): on a well-formed file with no, one or several expansion
\* fields, strl records or label sets, of any length, the loops of init end
\* at their sentinels: init returns the reader, has read up to the sentinel
\* of the last loop and no further, and has stored every strl record and
\* every label set.
C8_LoopsEndAtSentinel ==
    (ret.op = "NewStataReader"
        /\ desc.family \in {"expansion", "strls", "labels"}) =>
        /\ status = "ready"
        /\ rdr.pos = LoopsEnd
        /\ \A k \in 1..Len(desc.strls) :
              strl_key(desc.strls[k].v, desc.strls[k].o) \in
                  DOMAIN (IF desc.strls[k].t = 130 THEN rdr.Strls ELSE rdr.StrlsBytes)
        /\ \A k \in 1..Len(desc.labels) :
              desc.labels[k].name \in DOMAIN rdr.ValueLabels

----------------------------------------------------------------------------
(* C9 *)

Normalized(t) == t <= 2045 \/ t = 32768 \/ t \in 65526..65530

\* C9 (as claimed): the VarTypes of a reader that init returned are all
\* normalized tags, those of a version below 117 translated from the codes
\* of the file, and init fails (it returns an error, or panics) on a file
\* with a type code that is none of the known ones.
C9_TypesNormalized ==
    /\ status = "ready" =>
          \A k \in 1..Len(rdr.VarTypes) : Normalized(rdr.VarTypes[k])
    /\ (status = "ready" /\ desc.family \in {"rows", "boundary", "minimal"}) =>
          rdr.VarTypes = [j \in 1..Len(desc.cols) |-> Tag(desc.cols[j])]
    /\ (desc.family = "types" /\ status # "new") => status \in {"error", "panic"}

----------------------------------------------------------------------------
(* C10 *)

\* C10 (as claimed): with ConvertDates set, a Read returns normally, the
\* cell of a %td column that holds v in the file is the time v days after
\* 1960-01-01T00:00:00 UTC, that of a %tc column the time v milliseconds
\* after it (times by their distance from it in nanoseconds, in the 12
\* bytes that hold any such product exactly), and the
\* cell of a column that is no date column is v.
C10_DatesExact ==
    (ret.op = "Read" /\ desc.family = "dates" /\ rdr.ConvertDates) =>
        /\ ReadReturned
        /\ \A i \in 1..ret.out.n : \A j \in 1..Len(desc.cols) :
              IF HasPrefix(desc.cols[j].fmt, PctTd) \/ HasPrefix(desc.cols[j].fmt, PctTc)
              THEN /\ ret.out.data[j].type = "time"
                   /\ SignExtend(Cell(i, j), 12) =
                          MulBytes(ToBytes(desc.rows[FileRow(i)][j], 12),
                                   date_unit(desc.cols[j].fmt, 12))
              ELSE /\ ret.out.data[j].type = "int32"
                   /\ Cell(i, j) = desc.rows[FileRow(i)][j]

----------------------------------------------------------------------------
(* C11 *)

\* C11 (as claimed): with ConvertDates set, as it is by default, a Read of
\* a file whose date column (format %td or %tc) has any of the types the
\* row loop decodes returns normally, and the data of every column it
\* returns has the length of the column's mask.
C11_DatedColumnsReturned ==
    (ret.op = "Read" /\ desc.family = "dated" /\ rdr.ConvertDates) =>
        /\ ReadReturned
        /\ Len(ret.out.data) = Len(desc.cols)
        /\ \A j \in 1..Len(ret.out.data) :
              Len(ret.out.data[j].v) = Len(ret.out.missing[j])

====
